---- MODULE Spec2Model ----
(***************************************************************************)
(* Model of the Bitcoin dataset scripts:                                   *)
(*   scripts/bitcoinDataCollector.py   (the Collector pipeline)            *)
(*   scripts/bitcoinVisualization.py   (the Reporter pipeline)             *)
(*                                                                         *)
(* Spec           the two pipelines run as separate invocations over one   *)
(*                file system and one wall clock.                          *)
(* SpecNormalize  process_historical_data applied to every bounded raw     *)
(*                historical response.                                     *)
(* SpecStats      create_summary_stats applied to every bounded series.    *)
(*                                                                         *)
(* Units: a raw API value is a decimal number held in thousandths; a       *)
(* processed price is held in cents (two decimals); market cap and volume  *)
(* are whole numbers.  The wall clock is held in whole seconds.            *)
(***************************************************************************)
EXTENDS Integers, Sequences, FiniteSets, TLC

VARIABLES clock, fs, col, rep, colStart, repStart, runs, arg, ret

vars == <<clock, fs, col, rep, colStart, repStart, runs, arg, ret>>

\* ------------------------------------------------------------------ bounds

\* longest raw array of a historical response (SpecNormalize)
MaxLen == 2
\* longest series handed to create_summary_stats (SpecStats)
MaxRows == 4
\* invocations of either script in one behaviour (Spec)
MaxInvocations == 3
\* largest wall-clock reading, in seconds (Spec)
MaxClock == 2

\* ------------------------------------------------------- program constants

\* pd.to_datetime(..., unit='ms'): milliseconds in one calendar day
MsPerDay == 86400000
\* df['price'].round(2): thousandths per cent
PriceScale == 10
\* df['market_cap'].round(0), df['volume'].round(0): thousandths per unit
UnitScale == 1000
\* "bytes": len(df) * 100
BytesPerRow == 100
\* response.status_code == 200
StatusOk == 200

\* ------------------------------------------------------------ raw inputs

\* a JSON null in a raw array, a NaN once in a DataFrame
NaN == -1

Timestamps == {0, MsPerDay}
PriceRaw == {100005, 200000}
CapRaw == {1500, NaN}
VolumeRaw == {2500}

SeqsUpTo(S, n) == UNION {[1..k -> S] : k \in 0..n}

RawResponses ==
    [prices : SeqsUpTo(Timestamps \X PriceRaw, MaxLen),
     market_caps : SeqsUpTo(Timestamps \X CapRaw, MaxLen),
     total_volumes : SeqsUpTo(Timestamps \X VolumeRaw, MaxLen)]

\* ---------------------------------------------- process_historical_data

\* numpy's round: to the nearest multiple of d, ties to the even one
RoundHalfEven(n, d) ==
    LET q == n \div d
        r == n % d
    IN  IF 2 * r < d THEN q
        ELSE IF 2 * r > d THEN q + 1
        ELSE IF q % 2 = 0 THEN q ELSE q + 1

\* pd.DataFrame(pairs, columns=['timestamp', column])
DataFrame(pairs, column) ==
    [i \in 1..Len(pairs) |->
        ("timestamp" :> pairs[i][1]) @@ (column :> pairs[i][2])]

\* the rows of right whose key equals the key of row, in right's order
Matches(row, right) == SelectSeq(right, LAMBDA x : x.timestamp = row.timestamp)

JoinRow(row, ms) == [j \in 1..Len(ms) |-> row @@ ms[j]]

\* left.merge(right, on='timestamp'): the inner join, every pair of rows
\* with equal keys, in the order of the left keys
Merge(left, right) ==
    LET RECURSIVE Go(_)
        Go(l) == IF l = <<>> THEN <<>>
                 ELSE JoinRow(Head(l), Matches(Head(l), right)) \o Go(Tail(l))
    IN  Go(left)

\* pd.to_datetime(ts, unit='ms')
ToDatetime(ts) == [day |-> ts \div MsPerDay, ms |-> ts % MsPerDay]

\* .dt.date
ToDate(ts) == ToDatetime(ts).day

\* astype('int64') raises on a column that holds a NaN
HasNaN(df) == \E i \in 1..Len(df) : df[i].market_cap = NaN \/ df[i].volume = NaN

\* BitcoinDataCollector.process_historical_data: the processed frame, or
\* raised when astype('int64') meets a NaN
process_historical_data(raw_data) ==
    LET df_prices == DataFrame(raw_data.prices, "price")
        df_market_caps == DataFrame(raw_data.market_caps, "market_cap")
        df_volumes == DataFrame(raw_data.total_volumes, "volume")
        df == Merge(Merge(df_prices, df_market_caps), df_volumes)
    IN  IF HasNaN(df) THEN [raised |-> TRUE, df |-> <<>>]
        ELSE [raised |-> FALSE,
              df |-> [i \in 1..Len(df) |->
                [date |-> ToDate(df[i].timestamp),
                 datetime |-> ToDatetime(df[i].timestamp),
                 price |-> RoundHalfEven(df[i].price, PriceScale),
                 market_cap |-> RoundHalfEven(df[i].market_cap, UnitScale),
                 volume |-> RoundHalfEven(df[i].volume, UnitScale)]]]

\* ------------------------------------------------- create_summary_stats

RECURSIVE Groups(_)
\* the thousands groups of a whole number, most significant first
Groups(n) == IF n < 1000 THEN <<n>> ELSE Append(Groups(n \div 1000), n % 1000)

\* f'${x:,.2f}' of an amount held in cents
FormatUSD(cents) == [dollars |-> Groups(cents \div 100), cents |-> cents % 100]

RECURSIVE PriceSum(_)
PriceSum(df) == IF df = <<>> THEN 0 ELSE Head(df).price + PriceSum(Tail(df))

PriceSet(df) == {df[i].price : i \in 1..Len(df)}

\* df['price'].min()
PriceMin(df) == CHOOSE p \in PriceSet(df) : \A q \in PriceSet(df) : p <= q

\* df['price'].max()
PriceMax(df) == CHOOSE p \in PriceSet(df) : \A q \in PriceSet(df) : p >= q

\* a mean that divides by one more than the number of rows
MeanOffByOne(df) == RoundHalfEven(PriceSum(df), Len(df) + 1)

\* df['price'].mean(), to the cent the format keeps
PriceMean(df) == RoundHalfEven(PriceSum(df), Len(df))

\* create_summary_stats: df.iloc[-1] raises IndexError on an empty frame
create_summary_stats(df) ==
    IF df = <<>> THEN [raised |-> TRUE, stats |-> <<>>]
    ELSE [raised |-> FALSE,
          stats |-> [current_price |-> FormatUSD(df[Len(df)].price),
                     year_high |-> FormatUSD(PriceMax(df)),
                     year_low |-> FormatUSD(PriceMin(df)),
                     average_price |-> FormatUSD(PriceMean(df)),
                     price_range |-> FormatUSD(PriceMax(df) - PriceMin(df))]]

\* ------------------------------------------------------------ file system

\* df.to_csv(output_file, index=False): one text row per frame row, the
\* price written as a decimal number
to_csv(df) ==
    [exists |-> TRUE,
     rows |-> [i \in 1..Len(df) |->
        [date |-> df[i].date,
         datetime |-> df[i].datetime,
         price |-> <<df[i].price \div 100, df[i].price % 100>>,
         market_cap |-> df[i].market_cap,
         volume |-> df[i].volume]]]

\* pd.read_csv(csv_file): the frame parsed back from the text rows
read_csv(file) ==
    [i \in 1..Len(file.rows) |->
        [date |-> file.rows[i].date,
         datetime |-> file.rows[i].datetime,
         price |-> file.rows[i].price[1] * 100 + file.rows[i].price[2],
         market_cap |-> file.rows[i].market_cap,
         volume |-> file.rows[i].volume]]

\* a file opened in append mode keeps the rows it held
OpenAppend(old, content) ==
    IF old.exists THEN [content EXCEPT !.rows = old.rows \o content.rows]
    ELSE content

\* open(path, "w") and to_csv(path): the file holds the new content only
OpenW(old, content) == content

Missing == [exists |-> FALSE, rows |-> <<>>]

\* datetime.now().strftime("%Y%m%d_%H%M%S") of a clock held in seconds
Strftime(now) == [hhmm |-> now \div 60, ss |-> now % 60]

CurrentPriceFile(timestamp) == <<"data/raw/current_price", timestamp>>
HistoricalDataFile(timestamp) == <<"data/raw/historical_data", timestamp>>
CsvFile == "data/processed/bitcoin_prices.csv"
DatapackageFile == "datapackage.json"
PriceChartFile == "visualizations/bitcoin_price_chart.html"
VolumeChartFile == "visualizations/bitcoin_volume_chart.html"
ReportFile == "visualizations/bitcoin_report.html"

\* a descriptor whose byte estimate also counts the header line
DatapackageWithHeader(file, now) ==
    [exists |-> TRUE, created |-> now,
     bytes |-> (Len(read_csv(file)) + 1) * BytesPerRow]

\* BitcoinDataCollector.create_datapackage: the descriptor built from the
\* CSV read back from disk
create_datapackage(file, now) ==
    [exists |-> TRUE, created |-> now,
     bytes |-> Len(read_csv(file)) * BytesPerRow]

NoDatapackage == [exists |-> FALSE, created |-> 0, bytes |-> 0]

\* ------------------------------------------------------ upstream requests

\* requests.get: a response with a status, or a connection error raised
NetOutcomes ==
    [raised : {FALSE}, status_code : {StatusOk, 204, 429}]
        \cup [raised : {TRUE}, status_code : {0}]

\* any 2xx status taken for success
Is2xx(response) == ~response.raised /\ response.status_code \in 200..299

\* if response.status_code == 200
ResponseOk(response) == ~response.raised /\ response.status_code = StatusOk

\* data["bitcoin"] of the simple-price endpoint
CurrentQuotes ==
    {[usd |-> 6500000, usd_market_cap |-> 1, usd_24h_vol |-> 2,
      usd_24h_change |-> 3, last_updated_at |-> 4]}

\* the market-chart responses the pipeline is run on: two aligned days, one
\* day, a day missing from one array, no common timestamp, a null market cap
MainResponses ==
    {[prices |-> <<<<0, 100005>>, <<MsPerDay, 200000>>>>,
      market_caps |-> <<<<0, 1500>>, <<MsPerDay, 1500>>>>,
      total_volumes |-> <<<<0, 2500>>, <<MsPerDay, 2500>>>>],
     [prices |-> <<<<0, 200000>>>>,
      market_caps |-> <<<<0, 1500>>>>,
      total_volumes |-> <<<<0, 2500>>>>],
     [prices |-> <<<<0, 100005>>>>,
      market_caps |-> <<<<MsPerDay, 1500>>>>,
      total_volumes |-> <<<<0, 2500>>>>],
     [prices |-> <<<<0, 100005>>>>,
      market_caps |-> <<<<0, NaN>>>>,
      total_volumes |-> <<<<0, 2500>>>>]}

\* --------------------------------------------------------------- Collector

Running == 0 - 1
Unset == [unset |-> TRUE]

IdleCollector ==
    [pc |-> "idle", current_data |-> Unset, historical_data |-> Unset,
     df_processed |-> <<>>, timestamp |-> Unset, exit |-> Running,
     requests |-> <<>>, responses |-> <<>>, writes |-> <<>>, steps |-> <<>>,
     validation |-> "none"]

CollectorSteps ==
    <<"collect_current_price", "sleep", "collect_historical_prices",
      "save_raw_data", "process_historical_data", "save_processed_data",
      "create_datapackage", "summary", "validate">>

\* except Exception as e: print, return 1
Except(c) == [c EXCEPT !.pc = "done", !.exit = 1]

Completed(c, step, next) == [c EXCEPT !.pc = next, !.steps = Append(@, step)]

NoInvocation == col.pc \in {"idle", "done"} /\ rep.pc \in {"idle", "done"}

\* python bitcoinDataCollector.py: main() up to the try block
StartCollector ==
    /\ NoInvocation
    /\ runs.collector + runs.reporter < MaxInvocations
    /\ col' = [IdleCollector EXCEPT !.pc = "collect_current_price"]
    /\ colStart' = fs
    /\ runs' = [runs EXCEPT !.collector = @ + 1]
    /\ UNCHANGED <<clock, fs, rep, repStart, arg, ret>>

\* collector.collect_current_price()
CollectCurrentPrice ==
    /\ col.pc = "collect_current_price"
    /\ \E response \in NetOutcomes, quote \in CurrentQuotes :
        LET c == [col EXCEPT !.requests = Append(@, "simple/price"),
                             !.responses = Append(@, response)]
        IN  col' = IF ResponseOk(response)
                   THEN Completed([c EXCEPT !.current_data = quote],
                                  "collect_current_price", "sleep")
                   ELSE Except(c)
    /\ UNCHANGED <<clock, fs, rep, colStart, repStart, runs, arg, ret>>

\* time.sleep(1): at least one second passes
Sleep ==
    /\ col.pc = "sleep"
    /\ clock < MaxClock
    /\ clock' = clock + 1
    /\ col' = Completed(col, "sleep", "collect_historical_prices")
    /\ UNCHANGED <<fs, rep, colStart, repStart, runs, arg, ret>>

\* collector.collect_historical_prices(days=365)
CollectHistoricalPrices ==
    /\ col.pc = "collect_historical_prices"
    /\ \E response \in NetOutcomes, body \in MainResponses :
        LET c == [col EXCEPT !.requests = Append(@, "market_chart"),
                             !.responses = Append(@, response)]
        IN  col' = IF ResponseOk(response)
                   THEN Completed([c EXCEPT !.historical_data = body],
                                  "collect_historical_prices", "save_raw_data")
                   ELSE Except(c)
    /\ UNCHANGED <<clock, fs, rep, colStart, repStart, runs, arg, ret>>

\* collector.save_raw_data(current_data, historical_data)
SaveRawData ==
    /\ col.pc = "save_raw_data"
    /\ LET timestamp == Strftime(clock)
           written == (CurrentPriceFile(timestamp) :> col.current_data)
                      @@ (HistoricalDataFile(timestamp) :> col.historical_data)
       IN  /\ fs' = [fs EXCEPT !.raw = written @@ @]
           /\ col' = Completed(
                  [col EXCEPT !.timestamp = timestamp,
                              !.writes = @ \o <<CurrentPriceFile(timestamp),
                                                HistoricalDataFile(timestamp)>>],
                  "save_raw_data", "process_historical_data")
    /\ runs' = [runs EXCEPT !.saved_raw = @ + 1]
    /\ UNCHANGED <<clock, rep, colStart, repStart, arg, ret>>

\* df_processed = collector.process_historical_data(historical_data)
ProcessHistoricalData ==
    /\ col.pc = "process_historical_data"
    /\ LET r == process_historical_data(col.historical_data)
       IN  col' = IF r.raised THEN Except(col)
                  ELSE Completed([col EXCEPT !.df_processed = r.df],
                                 "process_historical_data", "save_processed_data")
    /\ UNCHANGED <<clock, fs, rep, colStart, repStart, runs, arg, ret>>

\* csv_file = collector.save_processed_data(df_processed)
SaveProcessedData ==
    /\ col.pc = "save_processed_data"
    /\ fs' = [fs EXCEPT !.csv = OpenW(@, to_csv(col.df_processed))]
    /\ col' = Completed([col EXCEPT !.writes = Append(@, <<CsvFile>>)],
                        "save_processed_data", "create_datapackage")
    /\ runs' = [runs EXCEPT !.saved_series = Append(@, col.df_processed)]
    /\ UNCHANGED <<clock, rep, colStart, repStart, arg, ret>>

\* collector.create_datapackage(csv_file)
CreateDatapackage ==
    /\ col.pc = "create_datapackage"
    /\ fs' = [fs EXCEPT !.datapackage = create_datapackage(fs.csv, clock)]
    /\ col' = Completed([col EXCEPT !.writes = Append(@, <<DatapackageFile>>)],
                        "create_datapackage", "summary")
    /\ UNCHANGED <<clock, rep, colStart, repStart, runs, arg, ret>>

\* the prints of the latest price and the data range: df_processed.iloc[-1]
\* raises IndexError on an empty frame
PrintSummary ==
    /\ col.pc = "summary"
    /\ col' = IF col.df_processed = <<>> THEN Except(col)
              ELSE Completed(col, "summary", "validate")
    /\ UNCHANGED <<clock, fs, rep, colStart, repStart, runs, arg, ret>>

ValidationOutcomes == {"FileNotFoundError", "returncode 0", "returncode 1"}

\* an exit status that follows the validator's return code
ExitOnValidation(outcome) == IF outcome = "returncode 1" THEN 1 ELSE 0

\* the status main returns once the validation block is over: return 0
ExitAfterValidation(outcome) == 0

\* subprocess.run(['frictionless', 'validate', 'datapackage.json'])
ValidatePackage ==
    /\ col.pc = "validate"
    /\ \E outcome \in ValidationOutcomes :
        col' = [Completed(col, "validate", "done")
                    EXCEPT !.validation = outcome,
                           !.exit = ExitAfterValidation(outcome)]
    /\ UNCHANGED <<clock, fs, rep, colStart, repStart, runs, arg, ret>>

\* ---------------------------------------------------------------- Reporter

NoFrame == [none |-> TRUE, rows |-> <<>>]

IdleReporter ==
    [pc |-> "idle", df |-> NoFrame, price_fig |-> <<>>, volume_fig |-> <<>>,
     stats |-> <<>>, exit |-> Running, writes |-> <<>>, steps |-> <<>>]

ReporterSteps ==
    <<"load_data", "mkdir", "create_charts", "create_summary_stats",
      "write_price_chart", "write_volume_chart", "write_report">>

\* load_data: the frame read from the processed CSV, None when the file is
\* missing (FileNotFoundError caught)
load_data(file) ==
    IF file.exists THEN [none |-> FALSE, rows |-> read_csv(file)] ELSE NoFrame

\* a main that goes on to create the output directory whatever load_data gave
AlwaysMkdir(df) == "mkdir"

\* df = load_data(); if df is None: return 1
AfterLoadData(df) == IF df.none THEN "done" ELSE "mkdir"

\* create_simple_price_chart: the trace of price against date
create_simple_price_chart(df) ==
    [i \in 1..Len(df.rows) |-> [x |-> df.rows[i].date, y |-> df.rows[i].price]]

\* create_volume_chart: the bars of volume against date
create_volume_chart(df) ==
    [i \in 1..Len(df.rows) |-> [x |-> df.rows[i].date, y |-> df.rows[i].volume]]

\* create_html_report: the statistics and both charts, with the time of writing
create_html_report(price_fig, volume_fig, stats, now) ==
    [generated |-> now, stats |-> stats,
     price_chart |-> price_fig, volume_chart |-> volume_fig]

\* an exception no handler catches: traceback, exit status 1
Uncaught(r) == [r EXCEPT !.pc = "done", !.exit = 1]

\* python bitcoinVisualization.py
StartReporter ==
    /\ NoInvocation
    /\ runs.collector + runs.reporter < MaxInvocations
    /\ rep' = [IdleReporter EXCEPT !.pc = "load_data"]
    /\ repStart' = fs
    /\ runs' = [runs EXCEPT !.reporter = @ + 1]
    /\ UNCHANGED <<clock, fs, col, colStart, arg, ret>>

\* df = load_data(); if df is None: return 1
LoadData ==
    /\ rep.pc = "load_data"
    /\ LET df == load_data(fs.csv)
           next == AfterLoadData(df)
       IN  rep' = IF next = "done"
                  THEN [rep EXCEPT !.pc = "done", !.exit = 1, !.df = df]
                  ELSE Completed([rep EXCEPT !.df = df], "load_data", next)
    /\ UNCHANGED <<clock, fs, col, colStart, repStart, runs, arg, ret>>

\* Path("visualizations").mkdir(exist_ok=True)
Mkdir ==
    /\ rep.pc = "mkdir"
    /\ fs' = [fs EXCEPT !.visualizations = TRUE]
    /\ rep' = Completed(rep, "mkdir", "create_charts")
    /\ UNCHANGED <<clock, col, colStart, repStart, runs, arg, ret>>

\* price_fig = create_simple_price_chart(df); volume_fig = create_volume_chart(df)
\* (subscripting None raises TypeError)
CreateCharts ==
    /\ rep.pc = "create_charts"
    /\ rep' = IF rep.df.none THEN Uncaught(rep)
              ELSE Completed(
                     [rep EXCEPT !.price_fig = create_simple_price_chart(rep.df),
                                 !.volume_fig = create_volume_chart(rep.df)],
                     "create_charts", "create_summary_stats")
    /\ UNCHANGED <<clock, fs, col, colStart, repStart, runs, arg, ret>>

\* stats = create_summary_stats(df)
CreateSummaryStats ==
    /\ rep.pc = "create_summary_stats"
    /\ LET r == create_summary_stats(rep.df.rows)
       IN  rep' = IF r.raised THEN Uncaught(rep)
                  ELSE Completed([rep EXCEPT !.stats = r.stats],
                                 "create_summary_stats", "write_price_chart")
    /\ UNCHANGED <<clock, fs, col, colStart, repStart, runs, arg, ret>>

\* price_fig.write_html("visualizations/bitcoin_price_chart.html")
WritePriceChart ==
    /\ rep.pc = "write_price_chart"
    /\ fs' = [fs EXCEPT !.html = (PriceChartFile :> rep.price_fig) @@ @]
    /\ rep' = Completed([rep EXCEPT !.writes = Append(@, PriceChartFile)],
                        "write_price_chart", "write_volume_chart")
    /\ UNCHANGED <<clock, col, colStart, repStart, runs, arg, ret>>

\* volume_fig.write_html("visualizations/bitcoin_volume_chart.html")
WriteVolumeChart ==
    /\ rep.pc = "write_volume_chart"
    /\ fs' = [fs EXCEPT !.html = (VolumeChartFile :> rep.volume_fig) @@ @]
    /\ rep' = Completed([rep EXCEPT !.writes = Append(@, VolumeChartFile)],
                        "write_volume_chart", "write_report")
    /\ UNCHANGED <<clock, col, colStart, repStart, runs, arg, ret>>

\* report_html = create_html_report(...); the report written; return 0
WriteReport ==
    /\ rep.pc = "write_report"
    /\ LET report_html == create_html_report(rep.price_fig, rep.volume_fig,
                                             rep.stats, clock)
       IN  fs' = [fs EXCEPT !.html = (ReportFile :> report_html) @@ @]
    /\ rep' = [Completed([rep EXCEPT !.writes = Append(@, ReportFile)],
                         "write_report", "done") EXCEPT !.exit = 0]
    /\ UNCHANGED <<clock, col, colStart, repStart, runs, arg, ret>>

\* ------------------------------------------------------------- wall clock

\* a second of wall-clock time passes between two invocations (within a
\* run the clock advances at the pause between the two requests)
Tick ==
    /\ NoInvocation
    /\ clock < MaxClock
    /\ clock' = clock + 1
    /\ UNCHANGED <<fs, col, rep, colStart, repStart, runs, arg, ret>>

\* the local wall clock datetime.now() reads is set back (the end of
\* daylight saving time, a clock correction)
ClockSetBack ==
    /\ NoInvocation
    /\ clock > 0
    /\ clock' = clock - 1
    /\ UNCHANGED <<fs, col, rep, colStart, repStart, runs, arg, ret>>

\* ---------------------------------------------------------- specifications

EmptyDisk ==
    [raw |-> <<>>, csv |-> Missing, datapackage |-> NoDatapackage,
     visualizations |-> FALSE, html |-> <<>>]

PipelineInit ==
    /\ clock = 0
    /\ fs = EmptyDisk
    /\ col = IdleCollector
    /\ rep = IdleReporter
    /\ colStart = EmptyDisk
    /\ repStart = EmptyDisk
    /\ runs = [collector |-> 0, reporter |-> 0, saved_raw |-> 0,
               saved_series |-> <<>>]

Init ==
    /\ PipelineInit
    /\ arg = <<>>
    /\ ret = [done |-> FALSE]

Next ==
    \/ StartCollector
    \/ CollectCurrentPrice
    \/ Sleep
    \/ CollectHistoricalPrices
    \/ SaveRawData
    \/ ProcessHistoricalData
    \/ SaveProcessedData
    \/ CreateDatapackage
    \/ PrintSummary
    \/ ValidatePackage
    \/ StartReporter
    \/ LoadData
    \/ Mkdir
    \/ CreateCharts
    \/ CreateSummaryStats
    \/ WritePriceChart
    \/ WriteVolumeChart
    \/ WriteReport
    \/ Tick
    \/ ClockSetBack

Spec == Init /\ [][Next]_vars

\* process_historical_data on every bounded raw response
InitNormalize ==
    /\ PipelineInit
    /\ arg \in RawResponses
    /\ ret = [done |-> FALSE]

Normalize ==
    /\ ~ret.done
    /\ ret' = [done |-> TRUE, out |-> process_historical_data(arg)]
    /\ UNCHANGED <<clock, fs, col, rep, colStart, repStart, runs, arg>>

SpecNormalize == InitNormalize /\ [][Normalize]_vars

\* create_summary_stats on every bounded series
StatPrices == {0, 12345, 9999999}

SeriesOf(prices) ==
    [i \in 1..Len(prices) |->
        [date |-> i - 1, datetime |-> [day |-> i - 1, ms |-> 0],
         price |-> prices[i], market_cap |-> 2, volume |-> 3]]

InitStats ==
    /\ PipelineInit
    /\ arg \in {SeriesOf(prices) : prices \in SeqsUpTo(StatPrices, MaxRows)}
    /\ ret = [done |-> FALSE]

SummaryStats ==
    /\ ~ret.done
    /\ ret' = [done |-> TRUE, out |-> create_summary_stats(arg)]
    /\ UNCHANGED <<clock, fs, col, rep, colStart, repStart, runs, arg>>

SpecStats == InitStats /\ [][SummaryStats]_vars

\* ------------------------------------------------------------------ claims

Count(seq, x) == Cardinality({i \in 1..Len(seq) : seq[i] = x})

IndexOf(seq, x) == CHOOSE i \in 1..Len(seq) : seq[i] = x

Last(seq) == seq[Len(seq)]

KeysOf(pairs) == {pairs[i][1] : i \in 1..Len(pairs)}

\* the timestamps that occur in all three arrays of a raw response
CommonTimestamps(raw) ==
    KeysOf(raw.prices) \cap KeysOf(raw.market_caps) \cap KeysOf(raw.total_volumes)

Before(a, b) == a.day < b.day \/ (a.day = b.day /\ a.ms < b.ms)

\* C1: for every historical response, duplicates included, the series that
\* process_historical_data returns has as many rows as there are distinct
\* timestamps occurring in all three input arrays.
C1_RowsEqualCommonTimestamps ==
    (ret.done /\ ~ret.out.raised)
        => Len(ret.out.df) = Cardinality(CommonTimestamps(arg))

\* C2: a Reporter run that finds no processed CSV ends with exit status 1,
\* and in no state of the run is the visualizations directory or any HTML
\* file created or modified.
C2_MissingCsvNoArtifacts ==
    (rep.pc # "idle" /\ ~repStart.csv.exists)
        => /\ rep.pc \in {"load_data", "done"}
           /\ rep.pc = "done" => rep.exit = 1
           /\ rep.writes = <<>>
           /\ fs.visualizations = repStart.visualizations
           /\ fs.html = repStart.html

C2_Witness ==
    /\ rep.pc = "done"
    /\ ~repStart.csv.exists
    /\ rep.df.none
    /\ rep.exit = 1

\* C3: a Collector run that returns 0 wrote the descriptor exactly once,
\* after the CSV, and the descriptor's byte estimate is computed from the
\* row count of the CSV this run wrote.
C3_DescriptorOfThisRun ==
    (col.pc = "done" /\ col.exit = 0)
        => /\ Count(col.writes, <<DatapackageFile>>) = 1
           /\ Count(col.writes, <<CsvFile>>) = 1
           /\ IndexOf(col.writes, <<CsvFile>>)
                < IndexOf(col.writes, <<DatapackageFile>>)
           /\ fs.csv = to_csv(col.df_processed)
           /\ fs.datapackage.exists
           /\ fs.datapackage.bytes = Len(col.df_processed) * BytesPerRow

C3_Witness ==
    /\ col.pc = "done"
    /\ col.exit = 0
    /\ colStart.datapackage.exists
    /\ Len(colStart.csv.rows) # Len(col.df_processed)
    /\ fs.datapackage.bytes # colStart.datapackage.bytes

\* C4: save_raw_data never overwrites a raw file of an earlier run, so the
\* number of raw files is twice the number of runs that reached
\* save_raw_data, also for two runs that save within the same clock second.
C4_RawFilesTwicePerRun == Cardinality(DOMAIN fs.raw) = 2 * runs.saved_raw

\* C5: a non-200 answer to either request aborts the run with exit status 1:
\* no later request is issued and no raw file, CSV or descriptor is written;
\* each endpoint is requested at most once in a run.
C5_NonSuccessAborts ==
    /\ Count(col.requests, "simple/price") <= 1
    /\ Count(col.requests, "market_chart") <= 1
    /\ \A i \in 1..Len(col.responses) :
        col.responses[i].status_code # StatusOk
            => /\ col.pc = "done"
               /\ col.exit = 1
               /\ Len(col.requests) = i
               /\ col.writes = <<>>
               /\ fs.raw = colStart.raw
               /\ fs.csv = colStart.csv
               /\ fs.datapackage = colStart.datapackage

C5_Witness ==
    /\ col.pc = "done"
    /\ Len(col.responses) = 2
    /\ col.responses[1].status_code = StatusOk
    /\ ~col.responses[2].raised
    /\ col.responses[2].status_code # StatusOk
    /\ col.exit = 1

\* C6: on a series of N >= 1 rows that all have price P, create_summary_stats
\* reports current price, year low, year high and average price all equal to
\* P, and a price range of 0.
C6_IdenticalPrices ==
    (ret.done /\ Len(arg) >= 1 /\ \A i \in 1..Len(arg) : arg[i].price = arg[1].price)
        => /\ ~ret.out.raised
           /\ ret.out.stats.current_price = FormatUSD(arg[1].price)
           /\ ret.out.stats.year_low = FormatUSD(arg[1].price)
           /\ ret.out.stats.year_high = FormatUSD(arg[1].price)
           /\ ret.out.stats.average_price = FormatUSD(arg[1].price)
           /\ ret.out.stats.price_range = [dollars |-> <<0>>, cents |-> 0]

C6_Witness ==
    /\ ret.done
    /\ Len(arg) >= 3
    /\ \A i \in 1..Len(arg) : arg[i].price = 12345
    /\ ret.out.stats.average_price = [dollars |-> <<123>>, cents |-> 45]

\* C7: the series process_historical_data returns has strictly increasing,
\* hence unique, timestamps, whatever the order of the raw entries.
C7_TimestampsStrictlyIncreasing ==
    (ret.done /\ ~ret.out.raised)
        => \A i, j \in 1..Len(ret.out.df) :
              i < j => Before(ret.out.df[i].datetime, ret.out.df[j].datetime)

\* C8: the exit status is 0 exactly when every step of the run completed and
\* 1 otherwise; a Collector run that returns 0 made both fetches and wrote
\* the raw files, the CSV and the descriptor; a Reporter run that returns 0
\* wrote the three HTML files; the validator's outcome does not change the
\* Collector's status.
C8_ExitStatus ==
    /\ col.pc = "done"
        => /\ col.exit \in {0, 1}
           /\ col.exit = 0 <=> col.steps = CollectorSteps
           /\ col.exit = 0
                => /\ Len(col.responses) = 2
                   /\ \A i \in 1..2 : col.responses[i].status_code = StatusOk
                   /\ col.writes = <<CurrentPriceFile(col.timestamp),
                                     HistoricalDataFile(col.timestamp),
                                     <<CsvFile>>, <<DatapackageFile>>>>
                   /\ col.validation \in ValidationOutcomes
    /\ rep.pc = "done"
        => /\ rep.exit \in {0, 1}
           /\ rep.exit = 0 <=> rep.steps = ReporterSteps
           /\ rep.exit = 0
                => /\ rep.writes = <<PriceChartFile, VolumeChartFile, ReportFile>>
                   /\ DOMAIN fs.html = {PriceChartFile, VolumeChartFile, ReportFile}

C8_Witness ==
    /\ col.pc = "done"
    /\ col.exit = 0
    /\ col.validation = "returncode 1"
    /\ rep.pc = "done"
    /\ rep.exit = 0

\* C9: the processed CSV holds exactly the series of the most recent run
\* that reached save_processed_data; a run that has not reached it leaves
\* the CSV and the descriptor as the run found them; a run that fails in
\* normalization has written its two raw files, and no raw file is removed.
C9_CsvOfLatestSave ==
    /\ runs.saved_series = <<>> => ~fs.csv.exists
    /\ runs.saved_series # <<>> => fs.csv = to_csv(Last(runs.saved_series))
    /\ (col.pc # "idle" /\ Count(col.steps, "save_processed_data") = 0)
        => /\ fs.csv = colStart.csv
           /\ fs.datapackage = colStart.datapackage
    /\ (col.pc = "done" /\ col.steps # <<>> /\ Last(col.steps) = "save_raw_data")
        => /\ col.exit = 1
           /\ CurrentPriceFile(col.timestamp) \in DOMAIN fs.raw
           /\ HistoricalDataFile(col.timestamp) \in DOMAIN fs.raw
           /\ fs.raw[HistoricalDataFile(col.timestamp)] = col.historical_data
    /\ DOMAIN colStart.raw \subseteq DOMAIN fs.raw

C9_Witness ==
    /\ col.pc = "done"
    /\ col.steps # <<>>
    /\ Last(col.steps) = "save_raw_data"
    /\ Len(runs.saved_series) = 1
    /\ Len(fs.csv.rows) = 2
    /\ Cardinality(DOMAIN fs.raw) = 4

\* C10: a Reporter run that finds the processed CSV writes exactly three
\* files, the price chart, the volume chart, then the report, and a later
\* run overwrites them: the directory never holds another file.
C10_ThreeFilesInOrder ==
    /\ (rep.pc = "done" /\ repStart.csv.exists)
        => rep.writes = <<PriceChartFile, VolumeChartFile, ReportFile>>
    /\ DOMAIN fs.html \subseteq {PriceChartFile, VolumeChartFile, ReportFile}

====
